---- MODULE Spec2Model ----
(***************************************************************************)
(* Model of src/app.py: the Telegram relay bot that forwards an image and  *)
(* an instruction to the Gemini generateContent API.                       *)
(*                                                                         *)
(*   - _ensure_image_and_mime : image normalisation                        *)
(*   - gemini_edit            : the four-step request ladder               *)
(*   - LAST_PHOTO store       : _set_last_photo/_pop_last_photo/           *)
(*                              _has_fresh_photo                           *)
(*   - on_photo_or_document, on_text : the handler coroutines, cut at      *)
(*                              their await points                         *)
(*                                                                         *)
(* Bytes are sequences of 0..255, texts are sequences of characters.       *)
(***************************************************************************)
EXTENDS Integers, Sequences, FiniteSets, TLC

VARIABLES
    LAST_PHOTO,   \* app.py:161  dict user_id -> <<img, ts>>
    now,          \* int(time.time())
    tasks,        \* handler coroutines of the bot, one per update
    puts,         \* history: number of _set_last_photo calls per user
    ret,          \* store harness: the last store call and what it returned
    hist,         \* history: per user, the last put and the accesses since
    call,         \* ladder harness: the gemini_edit coroutine
    responses     \* ladder harness: what the remote API answered, in order

vars == <<LAST_PHOTO, now, tasks, puts, ret, hist, call, responses>>

-----------------------------------------------------------------------------
(* Bounds of the model *)

MaxUser == 1
MaxTasks == 3
MaxTicks == 1
MaxStoreOps == 4
MaxBodyOver == 1

(* Program constants *)

TTL_SECONDS == 600
DIAG_LIMIT == 400
LAST_VARIANT == 3
HTTP_BAD_REQUEST == 400

PRIMARY_MODEL == "gemini-2.5-flash-image"
FALLBACK_MODEL == "gemini-2.0-flash-exp"

None == [none |-> TRUE]

Min(a, b) == IF a < b THEN a ELSE b

-----------------------------------------------------------------------------
(* Texts: str.strip() and slicing *)

IsSpace(c) == c \in {" ", "\n", "\t"}

RECURSIVE LStrip(_)
LStrip(s) ==
    IF s = <<>> THEN <<>>
    ELSE IF IsSpace(Head(s)) THEN LStrip(Tail(s)) ELSE s

RECURSIVE RStrip(_)
RStrip(s) ==
    IF s = <<>> THEN <<>>
    ELSE IF IsSpace(s[Len(s)]) THEN RStrip(SubSeq(s, 1, Len(s) - 1)) ELSE s

Strip(s) == RStrip(LStrip(s))

\* s[:n]
Prefix(s, n) == SubSeq(s, 1, Min(n, Len(s)))

-----------------------------------------------------------------------------
(* base64.b64encode / base64.b64decode on byte sequences; sextets are      *)
(* 0..63 and 64 stands for the padding character '='.                      *)

PAD == 64

RECURSIVE b64encode(_)
b64encode(b) ==
    IF Len(b) = 0 THEN <<>>
    ELSE IF Len(b) = 1 THEN
        <<b[1] \div 4, (b[1] % 4) * 16, PAD, PAD>>
    ELSE IF Len(b) = 2 THEN
        <<b[1] \div 4, (b[1] % 4) * 16 + b[2] \div 16, (b[2] % 16) * 4, PAD>>
    ELSE
        <<b[1] \div 4, (b[1] % 4) * 16 + b[2] \div 16,
          (b[2] % 16) * 4 + b[3] \div 64, b[3] % 64>>
        \o b64encode(SubSeq(b, 4, Len(b)))

RECURSIVE b64decode(_)
b64decode(s) ==
    IF Len(s) < 4 THEN <<>>
    ELSE
        LET b1 == s[1] * 4 + s[2] \div 16
            b2 == (s[2] % 16) * 16 + s[3] \div 4
            b3 == (s[3] % 4) * 64 + s[4]
        IN  IF s[3] = PAD THEN <<b1>>
            ELSE IF s[4] = PAD THEN <<b1, b2>>
            ELSE <<b1, b2, b3>> \o b64decode(SubSeq(s, 5, Len(s)))

-----------------------------------------------------------------------------
(* PIL: an encoded image is <<magic, mode code, pixel data...>>.  The      *)
(* magic byte is the first byte of the real file signature.                *)

MAGIC_JPEG == 255
MAGIC_PNG == 137
MAGIC_GIF == 71
MAGIC_BMP == 66
MAGIC_WEBP == 82

\* Image.open(...).format; "" when PIL cannot identify the bytes
ImageFormat(bytes) ==
    IF Len(bytes) < 2 THEN ""
    ELSE CASE bytes[1] = MAGIC_JPEG -> "JPEG"
           [] bytes[1] = MAGIC_PNG  -> "PNG"
           [] bytes[1] = MAGIC_GIF  -> "GIF"
           [] bytes[1] = MAGIC_BMP  -> "BMP"
           [] bytes[1] = MAGIC_WEBP -> "WEBP"
           [] OTHER -> ""

Decodable(bytes) == ImageFormat(bytes) # ""

ModeNames == <<"RGB", "RGBA", "L", "LA", "P", "PA">>

\* Image.mode
ImageMode(bytes) == ModeNames[((bytes[2] % 8) % Len(ModeNames)) + 1]

\* the image has an alpha band
HasAlphaChannel(bytes) == ImageMode(bytes) \in {"RGBA", "LA", "PA"}

\* an image without alpha band carries its transparency (a palette index
\* or a colour key) in im.info["transparency"], flagged by bit 3
HasColourKey(bytes) ==
    /\ ~HasAlphaChannel(bytes)
    /\ (bytes[2] \div 8) % 2 = 1

HasTransparency(bytes) == HasAlphaChannel(bytes) \/ HasColourKey(bytes)

ModeCode(m) == CHOOSE k \in 0..(Len(ModeNames) - 1) : ModeNames[k + 1] = m

\* im.save(buf, format="PNG") of the image brought to mode m: convert()
\* drops the alpha band of a mode that has one and turns the transparency
\* entry of im.info into a colour key, which save writes as tRNS
SavePng(bytes, m) ==
    <<MAGIC_PNG,
      ModeCode(m) + (IF m = "RGB" /\ HasColourKey(bytes) THEN 8 ELSE 0)>>
    \o SubSeq(bytes, 3, Len(bytes))

\* app.py:27-38 re-encoding every image, JPEG and PNG included
_ensure_reencodes_all(image_bytes) ==
    IF ~Decodable(image_bytes) THEN
        [raised |-> "UnidentifiedImageError"]
    ELSE
        [bytes |-> SavePng(image_bytes,
                           IF ImageMode(image_bytes) \in {"RGBA", "LA"}
                           THEN ImageMode(image_bytes) ELSE "RGB"),
         mime |-> "image/png"]

\* app.py:27-38
_ensure_image_and_mime(image_bytes) ==
    LET fmt == ImageFormat(image_bytes) IN
    IF ~Decodable(image_bytes) THEN
        [raised |-> "UnidentifiedImageError"]
    ELSE IF fmt \in {"JPEG", "JPG"} THEN
        [bytes |-> image_bytes, mime |-> "image/jpeg"]
    ELSE IF fmt = "PNG" THEN
        [bytes |-> image_bytes, mime |-> "image/png"]
    ELSE
        [bytes |-> SavePng(image_bytes,
                           IF ImageMode(image_bytes) \in {"RGBA", "LA"}
                           THEN ImageMode(image_bytes) ELSE "RGB"),
         mime |-> "image/png"]

-----------------------------------------------------------------------------
(* Session store, app.py:161-179.  Each operator takes the dict and the    *)
(* clock reading and returns the new dict and the returned value.          *)

\* app.py:164-165 where a put for a user who has an entry is dropped
_set_keeps_first(store, t, user_id, img) ==
    IF user_id \in DOMAIN store THEN store
    ELSE [u \in DOMAIN store \cup {user_id} |->
            IF u = user_id THEN <<img, t>> ELSE store[u]]

\* app.py:164-165 keeping one slot for all users
_set_shared_slot(store, t, user_id, img) ==
    [u \in DOMAIN store \cup {0} |-> IF u = 0 THEN <<img, t>> ELSE store[u]]

\* app.py:164-165
_set_last_photo(store, t, user_id, img) ==
    [u \in DOMAIN store \cup {user_id} |->
        IF u = user_id THEN <<img, t>> ELSE store[u]]

Del(store, user_id) == [u \in DOMAIN store \ {user_id} |-> store[u]]

\* app.py:167-175 with the mutation dropped: the entry stays in the dict
_pop_keeps_entry(store, t, user_id) ==
    IF user_id \notin DOMAIN store THEN [store |-> store, val |-> None]
    ELSE IF t - store[user_id][2] > TTL_SECONDS
         THEN [store |-> store, val |-> None]
         ELSE [store |-> store, val |-> store[user_id][1]]

\* app.py:167-175 with the age test dropped
_pop_ignores_age(store, t, user_id) ==
    IF user_id \notin DOMAIN store THEN [store |-> store, val |-> None]
    ELSE [store |-> Del(store, user_id), val |-> store[user_id][1]]

\* app.py:167-175
_pop_last_photo(store, t, user_id) ==
    IF user_id \notin DOMAIN store THEN [store |-> store, val |-> None]
    ELSE IF t - store[user_id][2] > TTL_SECONDS
         THEN [store |-> Del(store, user_id), val |-> None]
         ELSE [store |-> Del(store, user_id), val |-> store[user_id][1]]

\* app.py:177-179 with the boundary second counted as too old
_has_fresh_strict(store, t, user_id) ==
    user_id \in DOMAIN store /\ t - store[user_id][2] < TTL_SECONDS

\* app.py:177-179
_has_fresh_photo(store, t, user_id) ==
    user_id \in DOMAIN store /\ t - store[user_id][2] <= TTL_SECONDS

\* app.py:177-179 deleting the entry it finds too old
_has_fresh_purges(store, t, user_id) ==
    IF user_id \in DOMAIN store /\ t - store[user_id][2] > TTL_SECONDS
    THEN Del(store, user_id) ELSE store

\* app.py:177-179: the dict after the call; LAST_PHOTO.get() only reads
_has_fresh_photo_store(store, t, user_id) == store

-----------------------------------------------------------------------------
(* Request bodies, app.py:40-67 and 94-123 *)

DIRECTIVE == <<"Instruction: ">>

\* app.py:40-52
_parts(prompt, mime, b64data) ==
    << [parts |-> << [text |-> DIRECTIVE \o prompt],
                     [inline_data |-> [mime_type |-> mime, data |-> b64data]] >>] >>

\* app.py:54-67
_parts_with_role(prompt, mime, b64data) ==
    << [role |-> "user",
        parts |-> << [text |-> DIRECTIVE \o prompt],
                     [inline_data |-> [mime_type |-> mime, data |-> b64data]] >>] >>

\* app.py:94-97
payload1(prompt, mime, b64data) ==
    [contents |-> _parts(prompt, mime, b64data),
     generationConfig |-> [responseMimeType |-> "image/png"]]

\* app.py:107-110
payload2(prompt, mime, b64data) ==
    [contents |-> _parts_with_role(prompt, mime, b64data),
     generationConfig |-> [responseMimeType |-> "image/png"]]

\* app.py:120-123
payload3(prompt, mime, b64data) ==
    [contents |-> _parts_with_role(prompt, mime, b64data),
     responseModalities |-> <<"IMAGE">>]

\* the ladder with its second and third steps exchanged
LadderSwapped(i, prompt, mime, b64data) ==
    CASE i = 0 -> [model |-> PRIMARY_MODEL, payload |-> payload1(prompt, mime, b64data)]
      [] i = 1 -> [model |-> PRIMARY_MODEL, payload |-> payload3(prompt, mime, b64data)]
      [] i = 2 -> [model |-> PRIMARY_MODEL, payload |-> payload2(prompt, mime, b64data)]
      [] OTHER -> [model |-> FALLBACK_MODEL, payload |-> payload1(prompt, mime, b64data)]

\* the ladder sending its first request a second time
LadderRepeats(i, prompt, mime, b64data) ==
    CASE i = 0 -> [model |-> PRIMARY_MODEL, payload |-> payload1(prompt, mime, b64data)]
      [] i = 1 -> [model |-> PRIMARY_MODEL, payload |-> payload1(prompt, mime, b64data)]
      [] i = 2 -> [model |-> PRIMARY_MODEL, payload |-> payload3(prompt, mime, b64data)]
      [] OTHER -> [model |-> FALLBACK_MODEL, payload |-> payload1(prompt, mime, b64data)]

\* the i-th call of gemini_edit to _post_model, app.py:99, 112, 125, 134
Ladder(i, prompt, mime, b64data) ==
    CASE i = 0 -> [model |-> PRIMARY_MODEL, payload |-> payload1(prompt, mime, b64data)]
      [] i = 1 -> [model |-> PRIMARY_MODEL, payload |-> payload2(prompt, mime, b64data)]
      [] i = 2 -> [model |-> PRIMARY_MODEL, payload |-> payload3(prompt, mime, b64data)]
      [] OTHER -> [model |-> FALLBACK_MODEL, payload |-> payload1(prompt, mime, b64data)]

-----------------------------------------------------------------------------
(* What _post_model can come back with, app.py:69-80:                      *)
(*   [kind |-> "json", parts]          r.json() of a 2xx answer; parts is  *)
(*                                     candidates[0].content.parts         *)
(*   [kind |-> "status", code, body]   raise_for_status(): HTTPStatusError *)
(*   [kind |-> "TimeoutException"], [kind |-> "ConnectError"]              *)
(*                                     raised by client.post               *)

TextPart == [text |-> <<"n", "o">>]
ImagePart(bytes) == [inline_data |-> [mime_type |-> "image/png", data |-> b64encode(bytes)]]

\* any status of an HTTPStatusError counts as remediable
RemediableAnyStatus(code) == TRUE

\* app.py:103, 116, 129: only a 400 lets the ladder go on
Remediable(code) == code = HTTP_BAD_REQUEST

BAD_REQUEST == <<"Bad Request">>
GEMINI_400 == <<"Gemini 400: ">>

\* the whole body, not cut
DiagnosticUncut(body) == IF body = <<>> THEN BAD_REQUEST ELSE body

\* app.py:139-144: body = e4.response.text[:400]; body or 'Bad Request'
Diagnostic(body) ==
    IF Prefix(body, DIAG_LIMIT) = <<>> THEN BAD_REQUEST ELSE Prefix(body, DIAG_LIMIT)

NoCall ==
    [pc |-> "idle", variant |-> 0, prompt |-> <<>>, mime1 |-> "", b64_1 |-> <<>>,
     attempts |-> <<>>, result |-> None, exc |-> None]

Raise(c, e) == [c EXCEPT !.pc = "raised", !.exc = e]

\* app.py:90-99: normalise, encode, send the first request
gemini_edit_begin(prompt, image_bytes) ==
    LET n == _ensure_image_and_mime(image_bytes) IN
    IF "raised" \in DOMAIN n THEN
        Raise([NoCall EXCEPT !.prompt = prompt], [type |-> n.raised])
    ELSE
        [NoCall EXCEPT !.pc = "await",
                       !.prompt = prompt,
                       !.mime1 = n.mime,
                       !.b64_1 = b64encode(n.bytes),
                       !.attempts = << Ladder(0, prompt, n.mime, b64encode(n.bytes)) >>]

\* app.py:98-144: the coroutine resumes with the answer to request c.variant
gemini_edit_resume(c, resp) ==
    IF resp.kind = "json" THEN
        \* data["candidates"][0]["content"]["parts"][0]["inline_data"]["data"]
        IF resp.parts = <<>> THEN Raise(c, [type |-> "IndexError"])
        ELSE IF "inline_data" \notin DOMAIN resp.parts[1]
        THEN Raise(c, [type |-> "KeyError"])
        ELSE [c EXCEPT !.pc = "returned",
                       !.result = b64decode(resp.parts[1].inline_data.data)]
    ELSE IF resp.kind = "status" THEN
        IF c.variant < LAST_VARIANT THEN
            IF ~Remediable(resp.code)
            THEN Raise(c, [type |-> "HTTPStatusError", code |-> resp.code,
                           body |-> resp.body])
            ELSE [c EXCEPT !.variant = c.variant + 1,
                           !.attempts = Append(c.attempts,
                                          Ladder(c.variant + 1, c.prompt, c.mime1, c.b64_1))]
        ELSE
            \* app.py:137-144: every HTTPStatusError of the last request
            Raise(c, [type |-> "RuntimeError",
                      msg |-> GEMINI_400 \o Diagnostic(resp.body)])
    ELSE
        \* not an HTTPStatusError: no except clause of gemini_edit catches it
        Raise(c, [type |-> resp.kind])

-----------------------------------------------------------------------------
(* Inputs *)

Users == 0..MaxUser

JPEG_RGB == <<MAGIC_JPEG, 0, 10, 20>>
PNG_RGBA == <<MAGIC_PNG, 1, 30>>
GIF_P_TRANSPARENT == <<MAGIC_GIF, 12, 40, 50, 60>>
WEBP_RGBA == <<MAGIC_WEBP, 1, 70>>
BMP_RGB == <<MAGIC_BMP, 0, 80>>
NOT_AN_IMAGE == <<1, 2, 3>>

SourceImages == {JPEG_RGB, PNG_RGBA, GIF_P_TRANSPARENT, WEBP_RGBA, BMP_RGB, NOT_AN_IMAGE}

Prompts == { <<"a">>, <<"1", ">", "2">> }

\* images the remote model may produce: one to four bytes, so that every
\* base64 padding occurs
ResultImages == { <<MAGIC_PNG>>, <<MAGIC_PNG, 1>>, <<MAGIC_PNG, 0, 200>>,
                  <<MAGIC_JPEG, 0, 17, 255>> }

\* an error body of n characters
BodyText == <<"{", "e", "r", "r", "o", "r", "}">>

Body(n) == [k \in 1..n |-> BodyText[(k % Len(BodyText)) + 1]]

BodyLengths == {0, 1, DIAG_LIMIT, DIAG_LIMIT + MaxBodyOver}

JsonResponses ==
    { [kind |-> "json", parts |-> <<ImagePart(b)>>] : b \in ResultImages }
    \cup { [kind |-> "json", parts |-> <<ImagePart(b), TextPart>>] : b \in ResultImages }
    \cup { [kind |-> "json", parts |-> <<TextPart>>],
           [kind |-> "json", parts |-> <<TextPart, ImagePart(<<MAGIC_PNG>>)>>],
           [kind |-> "json", parts |-> <<>>] }

StatusResponses ==
    { [kind |-> "status", code |-> HTTP_BAD_REQUEST, body |-> Body(n)] : n \in BodyLengths }
    \cup { [kind |-> "status", code |-> c, body |-> Body(2)] : c \in {401, 429, 500} }

TransportFailures == { [kind |-> "TimeoutException"], [kind |-> "ConnectError"] }

Responses == JsonResponses \cup StatusResponses \cup TransportFailures

-----------------------------------------------------------------------------
(* Ladder harness: one gemini_edit call against a simulated remote API *)

InitEdit ==
    /\ LAST_PHOTO = << >>
    /\ now = 0
    /\ tasks = << >>
    /\ puts = [u \in Users |-> 0]
    /\ ret = None
    /\ hist = [u \in Users |-> None]
    /\ call = NoCall
    /\ responses = << >>

varsBot == <<LAST_PHOTO, now, tasks, puts, hist>>
varsStore == <<ret>>
varsEdit == <<call, responses>>

EditCall(prompt, image_bytes) ==
    /\ call.pc = "idle"
    /\ call' = gemini_edit_begin(prompt, image_bytes)
    /\ UNCHANGED <<responses, varsBot, varsStore>>

EditRespond(resp) ==
    /\ call.pc = "await"
    /\ call' = gemini_edit_resume(call, resp)
    /\ responses' = Append(responses, resp)
    /\ UNCHANGED <<varsBot, varsStore>>

NextEdit ==
    \/ \E prompt \in Prompts, image_bytes \in SourceImages : EditCall(prompt, image_bytes)
    \/ \E resp \in Responses : EditRespond(resp)

SpecEdit == InitEdit /\ [][NextEdit]_vars

\* what every step of a call changes: its position and the variant it is at
EditProgress == <<call.pc, call.variant>>

\* app.py:72: every request carries timeout=180, so a call that waits for an
\* answer gets one (a response or a TimeoutException)
SpecEditFair == SpecEdit /\ WF_EditProgress(NextEdit)

-----------------------------------------------------------------------------
(* Properties of the ladder, checked under SpecEdit *)

IsBadRequest(r) == r.kind = "status" /\ r.code = HTTP_BAD_REQUEST

NonRemediable(r) ==
    \/ r.kind \in {"TimeoutException", "ConnectError"}
    \/ r.kind = "status" /\ r.code # HTTP_BAD_REQUEST

\* a 2xx answer none of whose parts carries inline image data
HasNoImage(r) ==
    r.kind = "json" /\ \A j \in 1..Len(r.parts) : "inline_data" \notin DOMAIN r.parts[j]

\* a 2xx answer whose first part is the inline image b
AnswersImage(r, b) ==
    r.kind = "json" /\ r.parts # <<>> /\ r.parts[1] = ImagePart(b)

AllBadRequest(n) ==
    Len(responses) >= n /\ \A j \in 1..n : IsBadRequest(responses[j])

\* what distinguishes the requests of the ladder
Shape(request) ==
    [model |-> request.model,
     role |-> "role" \in DOMAIN request.payload.contents[1],
     hint |-> IF "generationConfig" \in DOMAIN request.payload THEN "mime"
              ELSE IF "responseModalities" \in DOMAIN request.payload THEN "modality"
              ELSE "none"]

LadderOrder ==
    << [model |-> PRIMARY_MODEL, role |-> FALSE, hint |-> "mime"],
       [model |-> PRIMARY_MODEL, role |-> TRUE, hint |-> "mime"],
       [model |-> PRIMARY_MODEL, role |-> TRUE, hint |-> "modality"],
       [model |-> FALLBACK_MODEL, role |-> FALSE, hint |-> "mime"] >>

\* C1: when the answer to variant i (i < 3) is a 2xx response without inline
\* image data, gemini_edit goes on to request variant i+1: it neither
\* returns nor raises on that answer.
C1_TextAnswerTriesNextVariant ==
    \A i \in 1..Len(responses) :
        (i <= LAST_VARIANT /\ AllBadRequest(i - 1) /\ HasNoImage(responses[i]))
            => /\ Len(call.attempts) >= i + 1
               /\ (Len(responses) = i => call.pc = "await")

C3_NonRemediableAborts ==
    \A i \in 1..Len(responses) :
        NonRemediable(responses[i])
            => /\ call.pc = "raised"
               /\ Len(call.attempts) = i
               /\ Len(responses) = i

\* C3 witness: a server error on the second request ended the call
C3_Witness ==
    /\ call.pc = "raised"
    /\ call.exc.type = "HTTPStatusError"
    /\ Len(responses) = 2
    /\ IsBadRequest(responses[1])
    /\ responses[2].kind = "status" /\ responses[2].code = 500

\* the diagnostic part of the RuntimeError message
DiagnosticOf(msg) == SubSeq(msg, Len(GEMINI_400) + 1, Len(msg))

\* C4: after four answers of HTTP 400 gemini_edit has sent exactly four
\* requests and raised RuntimeError "Gemini 400: <diagnostic>", where the
\* diagnostic is non-empty and is the first min(400, length) characters of
\* the fourth answer's body, or "Bad Request" when that body is empty.
C4_ExhaustedLadder ==
    AllBadRequest(LAST_VARIANT + 1)
        => /\ Len(responses) = LAST_VARIANT + 1
           /\ Len(call.attempts) = LAST_VARIANT + 1
           /\ call.pc = "raised"
           /\ call.exc.type = "RuntimeError"
           /\ LET body == responses[LAST_VARIANT + 1].body
                  diag == DiagnosticOf(call.exc.msg)
              IN  /\ SubSeq(call.exc.msg, 1, Len(GEMINI_400)) = GEMINI_400
                  /\ diag # <<>>
                  /\ IF body = <<>> THEN diag = BAD_REQUEST
                     ELSE /\ Len(diag) = Min(Len(body), DIAG_LIMIT)
                          /\ diag = SubSeq(body, 1, Len(diag))

\* C4 witness: the ladder is exhausted and the last body is longer than the limit
C4_Witness ==
    /\ AllBadRequest(LAST_VARIANT + 1)
    /\ Len(responses[LAST_VARIANT + 1].body) > DIAG_LIMIT
    /\ Len(responses[1].body) = 1
    /\ call.pc = "raised"

\* C5: gemini_edit raises the ladder-exhausted error only when every
\* variant, the last included, failed with HTTP 400; a non-remediable
\* failure at any variant is raised as that failure.
C5_ExhaustedOnlyAfterFourBadRequests ==
    /\ (call.pc = "raised" /\ call.exc.type = "RuntimeError")
            => AllBadRequest(LAST_VARIANT + 1)
    /\ \A i \in 1..Len(responses) :
        NonRemediable(responses[i])
            => (call.pc = "raised" /\ call.exc.type # "RuntimeError")

-----------------------------------------------------------------------------
(* Store harness: the three store functions called directly, with the      *)
(* clock moving in between.                                                *)

StoreImages == {JPEG_RGB, PNG_RGBA}

\* steps of the clock: the validity window, and one second more
TickSteps == {TTL_SECONDS, TTL_SECONDS + 1}

ClockLimit == MaxTicks * (TTL_SECONDS + 1)

NoOp == [op |-> "none", user |-> 0, val |-> None, n |-> 0]

InitStore ==
    /\ LAST_PHOTO = << >>
    /\ now = 0
    /\ tasks = << >>
    /\ puts = [u \in Users |-> 0]
    /\ ret = NoOp
    /\ hist = [u \in Users |-> None]
    /\ call = NoCall
    /\ responses = << >>

\* the image a put for u overwrites: the one put before it for u, if no pop
\* for u came in between
Replaced(u) ==
    IF hist[u] # None /\ hist[u].popped = << >> THEN hist[u].img ELSE None

StoreSet(u, img) ==
    /\ ret.n < MaxStoreOps
    /\ LAST_PHOTO' = _set_last_photo(LAST_PHOTO, now, u, img)
    /\ ret' = [op |-> "set", user |-> u, val |-> None, n |-> ret.n + 1]
    /\ hist' = [hist EXCEPT ![u] = [img |-> img, ts |-> now, popped |-> << >>,
                                    texts |-> << >>, replaced |-> Replaced(u)]]
    /\ UNCHANGED <<now, tasks, puts, varsEdit>>

StorePop(u) ==
    /\ ret.n < MaxStoreOps
    /\ LET r == _pop_last_photo(LAST_PHOTO, now, u) IN
        /\ LAST_PHOTO' = r.store
        /\ ret' = [op |-> "pop", user |-> u, val |-> r.val, n |-> ret.n + 1]
        /\ hist' = IF hist[u] = None THEN hist
                   ELSE [hist EXCEPT ![u].popped =
                            Append(@, [val |-> r.val, at |-> now])]
    /\ UNCHANGED <<now, tasks, puts, varsEdit>>

StoreHas(u) ==
    /\ ret.n < MaxStoreOps
    /\ ret' = [op |-> "has", user |-> u,
               val |-> _has_fresh_photo(LAST_PHOTO, now, u), n |-> ret.n + 1]
    /\ LAST_PHOTO' = _has_fresh_photo_store(LAST_PHOTO, now, u)
    /\ UNCHANGED <<now, hist, tasks, puts, varsEdit>>

StoreTick(d) ==
    /\ now + d <= ClockLimit
    /\ now' = now + d
    /\ UNCHANGED <<LAST_PHOTO, ret, hist, tasks, puts, varsEdit>>

NextStore ==
    \/ \E u \in Users, img \in StoreImages : StoreSet(u, img)
    \/ \E u \in Users : StorePop(u)
    \/ \E u \in Users : StoreHas(u)
    \/ \E d \in TickSteps : StoreTick(d)

SpecStore == InitStore /\ [][NextStore]_vars

\* C6: after _set_last_photo(u, b), with no later put for u, the first
\* _pop_last_photo(u) made within the validity window returns b and removes
\* the entry, and every later _pop_last_photo(u) returns None.
C6_ReadOnce ==
    \A u \in Users :
        (hist[u] # None /\ hist[u].popped # << >>)
            => /\ (hist[u].popped[1].at - hist[u].ts <= TTL_SECONDS
                        => hist[u].popped[1].val = hist[u].img)
               /\ \A j \in 2..Len(hist[u].popped) : hist[u].popped[j].val = None
               /\ u \notin DOMAIN LAST_PHOTO

\* C6 witness: a put, a pop that returned the image, and a second pop
C6_Witness ==
    \E u \in Users :
        /\ hist[u] # None
        /\ Len(hist[u].popped) = 2
        /\ hist[u].popped[1].val = hist[u].img
        /\ hist[u].popped[2].val = None

\* C7: a _pop_last_photo(u) made more than TTL_SECONDS after the last
\* _set_last_photo(u, b) returns None and leaves LAST_PHOTO without an
\* entry for u.
C7_ExpiredPopReturnsNone ==
    \A u \in Users :
        (/\ hist[u] # None
         /\ hist[u].popped # << >>
         /\ hist[u].popped[1].at - hist[u].ts > TTL_SECONDS)
            => /\ hist[u].popped[1].val = None
               /\ u \notin DOMAIN LAST_PHOTO

\* C7 witness: the first pop came one second after the window closed
C7_Witness ==
    \E u \in Users :
        /\ hist[u] # None
        /\ Len(hist[u].popped) = 1
        /\ hist[u].popped[1].at - hist[u].ts = TTL_SECONDS + 1
        /\ ret.op = "pop" /\ ret.user = u /\ ret.val = None

-----------------------------------------------------------------------------
(* The handlers, app.py:199-237.  A handler coroutine runs from one await  *)
(* to the next without interruption; every action below is one such run.   *)
(*                                                                         *)
(* A task is [handler, pc, user_id, text, file, img_bytes, call, calls,    *)
(* replies]: text is the stripped caption or message text, file the image  *)
(* the update carries, call the gemini_edit coroutine the handler awaits,  *)
(* calls the arguments of every gemini_edit call made, replies what was    *)
(* sent to the chat.                                                       *)

MSG_GENERATING == "generating"
MSG_PHOTO_OK == "photo received, now send the instruction"
MSG_NEED_PHOTO == "send an image first"
MSG_EXPIRED == "wait expired, send the image again"

ReplyText(m) == [kind |-> "reply_text", text |-> m]
ReplyPhoto(out) == [kind |-> "reply_photo", photo |-> out]
EditText(e) == [kind |-> "edit_text", error |-> e]

Captions == { <<" ">>, <<"a", " ">> }
Texts == { <<" ">>, <<" ", "b">> }
Files == { JPEG_RGB, NOT_AN_IMAGE }

\* the clock may move between the two time.time() readings of on_text
ClockDrift == {0, 1}

BotResponses ==
    { [kind |-> "json", parts |-> <<ImagePart(<<MAGIC_PNG, 0, 200>>)>>],
      [kind |-> "status", code |-> HTTP_BAD_REQUEST, body |-> Body(1)],
      [kind |-> "status", code |-> 500, body |-> Body(1)],
      [kind |-> "TimeoutException"] }

NewTask(handler, user_id, text, file) ==
    [handler |-> handler, pc |-> "start", user_id |-> user_id, text |-> text,
     file |-> file, img_bytes |-> None, call |-> NoCall, calls |-> << >>,
     replies |-> << >>]

\* app.py:200-202: up to the await of _download_best_photo
on_photo_or_document(user_id, caption, file) ==
    [NewTask("on_photo_or_document", user_id, Strip(caption), file)
        EXCEPT !.pc = "download"]

\* app.py:203-216 storing the image before it looks at the caption
photo_downloaded_stores_first(store, t, task) ==
    LET img_bytes == task.file IN
    IF img_bytes = << >> THEN
        [store |-> store, put |-> FALSE, task |-> [task EXCEPT !.pc = "done"]]
    ELSE IF task.text # << >> THEN
        [store |-> _set_last_photo(store, t, task.user_id, img_bytes),
         put |-> TRUE,
         task |-> [task EXCEPT !.pc = "reply_gen", !.img_bytes = img_bytes,
                               !.replies = Append(@, ReplyText(MSG_GENERATING))]]
    ELSE
        [store |-> _set_last_photo(store, t, task.user_id, img_bytes),
         put |-> TRUE,
         task |-> [task EXCEPT !.pc = "done", !.img_bytes = img_bytes,
                               !.replies = Append(@, ReplyText(MSG_PHOTO_OK))]]

\* app.py:203-216: from the end of the download to the next await
photo_downloaded(store, t, task) ==
    LET img_bytes == task.file IN
    IF img_bytes = << >> THEN
        [store |-> store, put |-> FALSE, task |-> [task EXCEPT !.pc = "done"]]
    ELSE IF task.text # << >> THEN
        [store |-> store, put |-> FALSE,
         task |-> [task EXCEPT !.pc = "reply_gen", !.img_bytes = img_bytes,
                               !.replies = Append(@, ReplyText(MSG_GENERATING))]]
    ELSE
        [store |-> _set_last_photo(store, t, task.user_id, img_bytes),
         put |-> TRUE,
         task |-> [task EXCEPT !.pc = "done", !.img_bytes = img_bytes,
                               !.replies = Append(@, ReplyText(MSG_PHOTO_OK))]]

\* app.py:218-230 reading the image without going through _pop_last_photo
on_text_peeks(store, t1, t2, user_id, raw) ==
    LET task == NewTask("on_text", user_id, Strip(raw), << >>) IN
    IF task.text = << >> THEN
        [store |-> store, popped |-> << >>, task |-> [task EXCEPT !.pc = "done"]]
    ELSE IF ~_has_fresh_photo(store, t1, user_id) THEN
        [store |-> store, popped |-> << >>,
         task |-> [task EXCEPT !.pc = "done",
                               !.replies = <<ReplyText(MSG_NEED_PHOTO)>>]]
    ELSE
        [store |-> store, popped |-> <<[val |-> store[user_id][1], at |-> t2]>>,
         task |-> [task EXCEPT !.pc = "reply_gen",
                               !.img_bytes = store[user_id][1],
                               !.replies = <<ReplyText(MSG_GENERATING)>>]]

\* app.py:218-230: up to the first await; t1 and t2 are the clock readings
\* of _has_fresh_photo and of _pop_last_photo
on_text(store, t1, t2, user_id, raw) ==
    LET task == NewTask("on_text", user_id, Strip(raw), << >>) IN
    IF task.text = << >> THEN
        [store |-> store, popped |-> << >>, task |-> [task EXCEPT !.pc = "done"]]
    ELSE IF ~_has_fresh_photo(store, t1, user_id) THEN
        [store |-> store, popped |-> << >>,
         task |-> [task EXCEPT !.pc = "done",
                               !.replies = <<ReplyText(MSG_NEED_PHOTO)>>]]
    ELSE
        LET r == _pop_last_photo(store, t2, user_id) IN
        IF r.val = None \/ r.val = << >> THEN
            [store |-> r.store, popped |-> <<[val |-> r.val, at |-> t2]>>,
             task |-> [task EXCEPT !.pc = "done",
                                   !.replies = <<ReplyText(MSG_EXPIRED)>>]]
        ELSE
            [store |-> r.store, popped |-> <<[val |-> r.val, at |-> t2]>>,
             task |-> [task EXCEPT !.pc = "reply_gen", !.img_bytes = r.val,
                                   !.replies = <<ReplyText(MSG_GENERATING)>>]]

\* app.py:212, 236 catching RuntimeError only: any other failure leaves the
\* handler
edit_finished_catches_runtime_only(task, c) ==
    IF c.pc = "returned" THEN
        [task EXCEPT !.pc = "done", !.call = NoCall,
                     !.replies = Append(@, ReplyPhoto(c.result))]
    ELSE IF c.pc = "raised" /\ c.exc.type = "RuntimeError" THEN
        [task EXCEPT !.pc = "done", !.call = NoCall,
                     !.replies = Append(@, EditText(c.exc))]
    ELSE IF c.pc = "raised" THEN
        [task EXCEPT !.pc = "escaped", !.call = NoCall]
    ELSE [task EXCEPT !.pc = "edit", !.call = c]

\* app.py:207-213, 231-237: what the handler does when gemini_edit is over
edit_finished(task, c) ==
    IF c.pc = "returned" THEN
        [task EXCEPT !.pc = "done", !.call = NoCall,
                     !.replies = Append(@, ReplyPhoto(c.result))]
    ELSE IF c.pc = "raised" THEN
        [task EXCEPT !.pc = "done", !.call = NoCall,
                     !.replies = Append(@, EditText(c.exc))]
    ELSE [task EXCEPT !.pc = "edit", !.call = c]

\* app.py:208, 232: the handler enters try and calls gemini_edit
start_edit(task) ==
    edit_finished(
        [task EXCEPT !.calls = Append(@, [prompt |-> task.text,
                                          image |-> task.img_bytes])],
        gemini_edit_begin(task.text, task.img_bytes))

Init ==
    /\ LAST_PHOTO = << >>
    /\ now = 0
    /\ tasks = << >>
    /\ puts = [u \in Users |-> 0]
    /\ ret = NoOp
    /\ hist = [u \in Users |-> None]
    /\ call = NoCall
    /\ responses = << >>

\* an update with a photo or an image document arrives
PhotoUpdate(u, caption, file) ==
    /\ Len(tasks) < MaxTasks
    /\ tasks' = Append(tasks, on_photo_or_document(u, caption, file))
    /\ UNCHANGED <<LAST_PHOTO, now, puts, hist, varsStore, varsEdit>>

\* the download of the update's image ends
PhotoDownloaded(t) ==
    /\ tasks[t].pc = "download"
    /\ LET r == photo_downloaded(LAST_PHOTO, now, tasks[t])
           u == tasks[t].user_id
       IN  /\ tasks' = [tasks EXCEPT ![t] = r.task]
           /\ LAST_PHOTO' = r.store
           /\ puts' = IF r.put THEN [puts EXCEPT ![u] = @ + 1] ELSE puts
           /\ hist' = IF r.put
                      THEN [hist EXCEPT ![u] = [img |-> tasks[t].file, ts |-> now,
                                                popped |-> << >>, texts |-> << >>,
                                                replaced |-> Replaced(u)]]
                      ELSE hist
    /\ UNCHANGED <<now, varsStore, varsEdit>>

\* an update with a text message arrives
TextUpdate(u, raw, d) ==
    /\ Len(tasks) < MaxTasks
    /\ LET r == on_text(LAST_PHOTO, now, now + d, u, raw)
           t == Len(tasks) + 1
       IN  /\ (r.popped = << >> => d = 0)
           /\ tasks' = Append(tasks, r.task)
           /\ LAST_PHOTO' = r.store
           /\ now' = now + d
           /\ hist' = IF hist[u] = None \/ r.task.text = << >> THEN hist
                      ELSE [hist EXCEPT ![u].popped = @ \o r.popped,
                                        ![u].texts = Append(@, [task |-> t, at |-> now])]
    /\ UNCHANGED <<puts, varsStore, varsEdit>>

\* the "generating" reply is out: the handler calls gemini_edit
StartEdit(t) ==
    /\ tasks[t].pc = "reply_gen"
    /\ tasks' = [tasks EXCEPT ![t] = start_edit(tasks[t])]
    /\ UNCHANGED <<LAST_PHOTO, now, puts, hist, varsStore, varsEdit>>

\* the remote API answers the request the task is waiting for
RemoteResponds(t, resp) ==
    /\ tasks[t].pc = "edit"
    /\ tasks' = [tasks EXCEPT ![t] =
                    edit_finished(tasks[t], gemini_edit_resume(tasks[t].call, resp))]
    /\ UNCHANGED <<LAST_PHOTO, now, puts, hist, varsStore, varsEdit>>

Tick(d) ==
    /\ now + d <= ClockLimit
    /\ now' = now + d
    /\ UNCHANGED <<LAST_PHOTO, tasks, puts, hist, varsStore, varsEdit>>

Next ==
    \/ \E u \in Users, caption \in Captions, file \in Files : PhotoUpdate(u, caption, file)
    \/ \E t \in DOMAIN tasks : PhotoDownloaded(t)
    \/ \E u \in Users, raw \in Texts, d \in ClockDrift : TextUpdate(u, raw, d)
    \/ \E t \in DOMAIN tasks : StartEdit(t)
    \/ \E t \in DOMAIN tasks, resp \in BotResponses : RemoteResponds(t, resp)
    \/ \E d \in TickSteps : Tick(d)

Spec == Init /\ [][Next]_vars

-----------------------------------------------------------------------------
(* Properties of the handlers, checked under Spec *)

\* the on_text tasks of user u that were handed a pending image
Consumers(u) ==
    { t \in DOMAIN tasks : /\ tasks[t].handler = "on_text"
                           /\ tasks[t].user_id = u
                           /\ tasks[t].img_bytes # None }

\* the pops since the last put of u that returned an image
Handed(u) == { j \in 1..Len(hist[u].popped) : hist[u].popped[j].val # None }

\* C8: under every interleaving of handler tasks no put is lost (until it
\* is popped the entry of u is the last image put for u, with its time
\* stamp), and one pending image is handed to at most one on_text task:
\* of the pops since a put at most one returns an image, that image is the
\* one put, and the tasks holding an image are no more than the puts.
C8_StoreLinearizable ==
    \A u \in Users :
        /\ Cardinality(Consumers(u)) <= puts[u]
        /\ (puts[u] = 0 => u \notin DOMAIN LAST_PHOTO)
        /\ hist[u] # None =>
            /\ Cardinality(Handed(u)) <= 1
            /\ \A j \in Handed(u) : hist[u].popped[j].val = hist[u].img
            /\ IF hist[u].popped = << >>
               THEN /\ u \in DOMAIN LAST_PHOTO
                    /\ LAST_PHOTO[u] = <<hist[u].img, hist[u].ts>>
               ELSE u \notin DOMAIN LAST_PHOTO

\* C8 witness: a text task of u is suspended in gemini_edit with the pending
\* image while a later text task of u has run and found no image
C8_Witness ==
    \E t1, t2 \in DOMAIN tasks :
        /\ t1 < t2
        /\ tasks[t1].handler = "on_text" /\ tasks[t2].handler = "on_text"
        /\ tasks[t1].user_id = tasks[t2].user_id
        /\ tasks[t1].pc = "edit"
        /\ tasks[t1].img_bytes = hist[tasks[t1].user_id].img
        /\ tasks[t2].img_bytes = None
        /\ tasks[t2].replies = <<ReplyText(MSG_NEED_PHOTO)>>

\* C9: after an image without caption was stored for u, the first non-empty
\* text of u that pops it within the validity window gets that image and
\* makes one gemini_edit call, with that text and that image; every later
\* text of u, as long as no new image is stored, makes no gemini_edit call
\* and is answered that an image must be sent first.
C9_TwoMessageFlow ==
    \A u \in Users :
        (/\ hist[u] # None
         /\ hist[u].texts # << >>
         /\ hist[u].popped # << >>
         /\ hist[u].popped[1].at - hist[u].ts <= TTL_SECONDS)
            => /\ LET first == tasks[hist[u].texts[1].task] IN
                    /\ first.img_bytes = hist[u].img
                    /\ first.calls =
                          IF first.pc = "reply_gen" THEN << >>
                          ELSE << [prompt |-> first.text, image |-> hist[u].img] >>
               /\ \A j \in 2..Len(hist[u].texts) :
                    LET later == tasks[hist[u].texts[j].task] IN
                        /\ later.pc = "done"
                        /\ later.calls = << >>
                        /\ later.replies = <<ReplyText(MSG_NEED_PHOTO)>>

\* C9 witness: the first text got its edited photo back, the second text
\* was told to send an image first
C9_Witness ==
    \E u \in Users :
        /\ hist[u] # None
        /\ Len(hist[u].texts) = 2
        /\ LET first == tasks[hist[u].texts[1].task]
               later == tasks[hist[u].texts[2].task]
           IN  /\ first.pc = "done"
               /\ Len(first.calls) = 1
               /\ first.replies[Len(first.replies)].kind = "reply_photo"
               /\ later.replies = <<ReplyText(MSG_NEED_PHOTO)>>

\* C10: once the pending image of u is stale, a text message of u handled
\* by on_text leaves LAST_PHOTO without an entry for u.
C10_StaleEntryPurgedOnText ==
    \A u \in Users :
        (/\ hist[u] # None
         /\ \E j \in 1..Len(hist[u].texts) :
                hist[u].texts[j].at - hist[u].ts > TTL_SECONDS)
            => u \notin DOMAIN LAST_PHOTO

\* the on_text tasks that were handed an image and whose gemini_edit call
\* failed: the status message was edited into an error report
FailedConsumers ==
    { t \in DOMAIN tasks : /\ tasks[t].handler = "on_text"
                           /\ tasks[t].img_bytes # None
                           /\ tasks[t].pc = "done"
                           /\ tasks[t].replies[Len(tasks[t].replies)].kind = "edit_text" }

\* the text of task t was handled after the last put of u
SinceLastPut(u, t) ==
    /\ hist[u] # None
    /\ \E j \in 1..Len(hist[u].texts) : hist[u].texts[j].task = t

\* C11: when on_text consumed the pending image of u and the gemini_edit
\* call then failed, whatever the failure, the image is not put back: as
\* long as no image was stored for u after that text, LAST_PHOTO holds no
\* entry for u.
C11_ConsumedImageNotRestored ==
    \A t \in FailedConsumers :
        SinceLastPut(tasks[t].user_id, t) => tasks[t].user_id \notin DOMAIN LAST_PHOTO

\* C11 witness: a text consumed the image, all four variants were refused,
\* the error was reported, and the user has no pending image
C11_Witness ==
    \E t \in FailedConsumers :
        /\ SinceLastPut(tasks[t].user_id, t)
        /\ tasks[t].replies[2].error.type = "RuntimeError"
        /\ tasks[t].user_id \notin DOMAIN LAST_PHOTO

\* the failures an edit can end with: undecodable image, exhausted ladder,
\* non-remediable status, transport failure
EditFailures == {"UnidentifiedImageError", "RuntimeError", "HTTPStatusError",
                 "TimeoutException"}

\* task t called gemini_edit and the call failed
EditFailed(t) ==
    /\ tasks[t].calls # << >>
    /\ tasks[t].pc = "done"
    /\ tasks[t].replies[Len(tasks[t].replies)].kind = "edit_text"

\* every task is at an await of its handler or has returned from it, and a
\* task that called gemini_edit ends with the status message followed by
\* the photo or by the edit that reports the failure
HandledAtBoundary(t) ==
    LET task == tasks[t] IN
    /\ task.pc \in {"download", "reply_gen", "edit", "done"}
    /\ (task.calls # << >> /\ task.pc = "done") =>
            /\ task.call = NoCall
            /\ Len(task.replies) = 2
            /\ task.replies[1] = ReplyText(MSG_GENERATING)
            /\ \/ task.replies[2].kind = "reply_photo"
               \/ /\ task.replies[2].kind = "edit_text"
                  /\ task.replies[2].error.type \in EditFailures
    /\ (task.calls # << >> /\ ~Decodable(task.img_bytes)) =>
            /\ task.pc = "done"
            /\ task.replies[2] = EditText([type |-> "UnidentifiedImageError"])

\* C12: a failure raised while on_photo_or_document (caption path) or
\* on_text attempts an edit never leaves the handler: the task returns
\* after editing the status message into the error report, and the step in
\* which an edit fails changes neither another task nor the store.
C12_FailuresContained ==
    [][ /\ \A t \in DOMAIN tasks' : HandledAtBoundary(t)'
        /\ \A t \in DOMAIN tasks :
              (~EditFailed(t) /\ EditFailed(t)') =>
                  /\ \A o \in DOMAIN tasks : o # t => tasks'[o] = tasks[o]
                  /\ LAST_PHOTO' = LAST_PHOTO ]_vars

\* C12 witness: a captioned upload that is no image, a text whose edit ran
\* out of variants, both reported to the user
C12_Witness ==
    \E t1, t2 \in DOMAIN tasks :
        /\ EditFailed(t1) /\ EditFailed(t2)
        /\ tasks[t1].handler = "on_photo_or_document"
        /\ tasks[t1].replies[2].error.type = "UnidentifiedImageError"
        /\ tasks[t2].handler = "on_text"
        /\ tasks[t2].replies[2].error.type = "RuntimeError"

-----------------------------------------------------------------------------
(* Further properties of the store, checked under SpecStore *)

\* C13: LAST_PHOTO holds at most one (bytes, timestamp) record per user and
\* it is the last one written: _set_last_photo(u, b2) after
\* _set_last_photo(u, b1) replaces b1, and a following pop of u within the
\* validity window returns b2; no pop after that put returns b1.
C13_LastWriteWins ==
    \A u \in Users :
        /\ u \in DOMAIN LAST_PHOTO =>
              /\ hist[u] # None
              /\ LAST_PHOTO[u] = <<hist[u].img, hist[u].ts>>
        /\ hist[u] # None =>
              \A j \in 1..Len(hist[u].popped) :
                  /\ \/ hist[u].popped[j].val = None
                     \/ hist[u].popped[j].val = hist[u].img
                  /\ (j = 1 /\ hist[u].popped[j].at - hist[u].ts <= TTL_SECONDS)
                        => hist[u].popped[j].val = hist[u].img

\* C13 witness: a second put overwrote a different pending image and the
\* pop that followed returned the second image
C13_Witness ==
    \E u \in Users :
        /\ hist[u] # None
        /\ hist[u].replaced # None
        /\ hist[u].replaced # hist[u].img
        /\ ret.op = "pop" /\ ret.user = u /\ ret.val = hist[u].img
        /\ hist[u].popped = <<[val |-> hist[u].img, at |-> now]>>

-----------------------------------------------------------------------------
(* The ladder as a state machine, checked under SpecEditFair *)

Terminal == {"returned", "raised"}

\* the requests made so far are the first variants of the ladder, in order,
\* and the call is idle, attempting variant Len(attempts) - 1, or in one of
\* the two terminal states
LadderState ==
    /\ call.pc \in {"idle", "await"} \cup Terminal
    /\ Len(call.attempts) <= LAST_VARIANT + 1
    /\ Len(responses) <= Len(call.attempts)
    /\ \A j \in 1..Len(call.attempts) : Shape(call.attempts[j]) = LadderOrder[j]
    /\ call.pc = "idle" => call.attempts = << >>
    /\ call.pc = "await" =>
          /\ call.variant = Len(call.attempts) - 1
          /\ Len(responses) = call.variant
          /\ call.result = None /\ call.exc = None
    /\ call.pc = "returned" =>
          /\ call.exc = None
          /\ DOMAIN call.result = 1..Len(call.result)
    /\ call.pc = "raised" => call.exc # None /\ call.result = None

\* one step moves from Idle to the first attempt, from attempt i to attempt
\* i + 1 or to a terminal state, and never out of a terminal state
LadderStep ==
    /\ call.pc \in Terminal =>
          /\ call'.pc = call.pc
          /\ call'.attempts = call.attempts
          /\ Len(responses') = Len(responses)
    /\ call.pc = "idle" => call'.pc \in {"await", "raised"}
    /\ (call.pc = "await" /\ call'.pc = "await") =>
          /\ call'.variant = call.variant + 1
          /\ Len(call'.attempts) = Len(call.attempts) + 1
          /\ SubSeq(call'.attempts, 1, Len(call.attempts)) = call.attempts
    /\ (call.pc = "await" /\ call'.pc \in Terminal) =>
          call'.attempts = call.attempts

\* C14: a gemini_edit call goes from Idle through the attempts 0, 1, 2, 3 in
\* that order, one index at a time, never sending a variant twice, with at
\* most four requests; it ends in exactly one of the terminal states
\* returned (an image was extracted) or raised, and never leaves it.
C14_LadderStateMachine ==
    /\ []LadderState
    /\ [][LadderStep]_vars
    /\ <>(call.pc \in Terminal)

\* C14 witness: attempts 0 and 1 were refused with 400, attempt 2 returned
\* the image
C14_Witness ==
    /\ call.pc = "returned"
    /\ Len(call.attempts) = LAST_VARIANT
    /\ Len(responses) = LAST_VARIANT
    /\ IsBadRequest(responses[1]) /\ IsBadRequest(responses[2])

\* C17: a call of _has_fresh_photo leaves LAST_PHOTO as it was: no entry is
\* added, removed or changed, whether the entry asked for is fresh, stale
\* or absent.
C17_HasFreshReadOnly ==
    [][ (ret'.op = "has" /\ ret'.n = ret.n + 1) => LAST_PHOTO' = LAST_PHOTO ]_vars

\* C17 witness: _has_fresh_photo answered False for an entry that is too
\* old, and the entry is still there
C17_Witness ==
    /\ ret.op = "has"
    /\ ret.val = FALSE
    /\ ret.user \in DOMAIN LAST_PHOTO
    /\ now - LAST_PHOTO[ret.user][2] > TTL_SECONDS

-----------------------------------------------------------------------------
(* Normaliser harness: _ensure_image_and_mime applied to every image of a  *)
(* bounded set: each format, each mode with and without a transparency     *)
(* entry, and bytes that are no image.                                     *)

MaxModeCode == 15
MaxPixels == 1

Magics == {MAGIC_JPEG, MAGIC_PNG, MAGIC_GIF, MAGIC_BMP, MAGIC_WEBP, 1}

PixelRuns == { [k \in 1..n |-> 200 + k] : n \in 0..MaxPixels }

NormImages ==
    { <<m, c>> \o px : m \in Magics, c \in 0..MaxModeCode, px \in PixelRuns }
    \cup { << >>, <<MAGIC_GIF>> }

InitNorm ==
    /\ LAST_PHOTO = << >>
    /\ now = 0
    /\ tasks = << >>
    /\ puts = [u \in Users |-> 0]
    /\ ret = NoOp
    /\ hist = [u \in Users |-> None]
    /\ call = NoCall
    /\ responses = << >>

Normalize(image_bytes) ==
    /\ ret' = [op |-> "normalize", input |-> image_bytes,
               val |-> _ensure_image_and_mime(image_bytes)]
    /\ UNCHANGED <<LAST_PHOTO, now, tasks, puts, hist, varsEdit>>

NextNorm == \E image_bytes \in NormImages : Normalize(image_bytes)

SpecNorm == InitNorm /\ [][NextNorm]_vars

\* the last call got an image PIL can open
Normalized == ret.op = "normalize" /\ Decodable(ret.input)

\* C15: for every decodable input that is neither JPEG nor PNG the PNG
\* returned by _ensure_image_and_mime has an alpha channel exactly when the
\* source has an alpha channel or a transparency entry, whatever its mode
\* (palette with transparency and PA included, not only RGBA and LA).
C15_AlphaPreserved ==
    (Normalized /\ ImageFormat(ret.input) \notin {"JPEG", "PNG"}) =>
        /\ ImageFormat(ret.val.bytes) = "PNG"
        /\ HasAlphaChannel(ret.val.bytes) <=> HasTransparency(ret.input)

\* C16: a JPEG comes back unchanged as image/jpeg, a PNG unchanged as
\* image/png, any other decodable image re-encoded as PNG with image/png;
\* the mime type is one of these two and is fixed by the decoded format.
C16_FormatPassThrough ==
    Normalized =>
        LET fmt == ImageFormat(ret.input)
            out == ret.val
        IN  /\ out.mime \in {"image/jpeg", "image/png"}
            /\ fmt = "JPEG" => out = [bytes |-> ret.input, mime |-> "image/jpeg"]
            /\ fmt = "PNG" => out = [bytes |-> ret.input, mime |-> "image/png"]
            /\ fmt \notin {"JPEG", "PNG"} =>
                  /\ out.mime = "image/png"
                  /\ ImageFormat(out.bytes) = "PNG"
                  /\ out.bytes # ret.input

\* C16 witness: a WEBP image came back as a PNG of the same pixels
C16_Witness ==
    /\ Normalized
    /\ ImageFormat(ret.input) = "WEBP"
    /\ ret.val.mime = "image/png"
    /\ ret.val.bytes[1] = MAGIC_PNG
    /\ SubSeq(ret.val.bytes, 3, Len(ret.val.bytes)) = SubSeq(ret.input, 3, Len(ret.input))
    /\ Len(ret.input) > 2

-----------------------------------------------------------------------------
(* Further properties of the handlers, checked under Spec *)

\* the entry of v, as a set with at most one element
EntryOf(v) == IF v \in DOMAIN LAST_PHOTO THEN {LAST_PHOTO[v]} ELSE {}

\* task t arrives or moves on in this step
Moved(t) ==
    \/ t \notin DOMAIN tasks
    \/ tasks'[t].pc # tasks[t].pc
    \/ tasks'[t].call.pc # tasks[t].call.pc
    \/ tasks'[t].call.variant # tasks[t].call.variant

\* the image a text task holds was stored by an earlier photo update of the
\* same user id
OwnImage(t) ==
    \E p \in 1..(t - 1) :
        /\ tasks[p].handler = "on_photo_or_document"
        /\ tasks[p].user_id = tasks[t].user_id
        /\ tasks[p].text = << >>
        /\ tasks[p].pc = "done"
        /\ tasks[p].file = tasks[t].img_bytes

\* C18: the store operations of one user id leave the entry of every other
\* user id as it was (the entry of v changes only in a step of a task of
\* v), and the image a text message consumes was stored under the user id
\* of that message.
C18_OwnerIndependence ==
    [][ /\ \A v \in Users :
              EntryOf(v)' # EntryOf(v) =>
                  \E t \in DOMAIN tasks' : tasks'[t].user_id = v /\ Moved(t)
        /\ \A u \in Users : \A t \in Consumers(u)' : OwnImage(t)' ]_vars

\* C18 witness: two users have stored different images; the text of user 1
\* got the image of user 1 and the entry of user 0 is as user 0 stored it
C18_Witness ==
    /\ hist[0] # None /\ hist[1] # None
    /\ hist[0].img # hist[1].img
    /\ \E t \in Consumers(1) : tasks[t].img_bytes = hist[1].img
    /\ EntryOf(0) = {<<hist[0].img, hist[0].ts>>}
    /\ EntryOf(1) = {}

\* the photo tasks that came with a caption
Captioned ==
    { t \in DOMAIN tasks : /\ tasks[t].handler = "on_photo_or_document"
                           /\ tasks[t].text # << >> }

\* the photo tasks of u without caption that have stored their image
Stored(u) ==
    { t \in DOMAIN tasks : /\ tasks[t].handler = "on_photo_or_document"
                           /\ tasks[t].user_id = u
                           /\ tasks[t].text = << >>
                           /\ tasks[t].pc = "done" }

\* C19: on_photo_or_document with a non-empty caption calls gemini_edit
\* once, with that caption and that image, and no step of it changes
\* LAST_PHOTO: the image is not stored and a pending image of the same user
\* is neither removed nor refreshed.  The puts are those of the images
\* that came without caption.
C19_CaptionBypassesStore ==
    [][ /\ \A t \in Captioned' :
              /\ tasks'[t].calls =
                    IF tasks'[t].pc \in {"edit", "done"}
                    THEN << [prompt |-> tasks'[t].text, image |-> tasks'[t].file] >>
                    ELSE << >>
              /\ Moved(t) => LAST_PHOTO' = LAST_PHOTO
        /\ \A u \in Users : puts'[u] = Cardinality(Stored(u)') ]_vars

\* C19 witness: a captioned image was edited and answered while another
\* image of the same user stays pending with its original time stamp
C19_Witness ==
    \E t \in Captioned :
        LET u == tasks[t].user_id IN
        /\ tasks[t].pc = "done"
        /\ Len(tasks[t].calls) = 1
        /\ tasks[t].replies[2].kind = "reply_photo"
        /\ hist[u] # None
        /\ hist[u].img # tasks[t].file
        /\ EntryOf(u) = {<<hist[u].img, hist[u].ts>>}
        /\ now > hist[u].ts

\* at the clock value t the check and the pop agree on every entry: up to
\* TTL_SECONDS of age both take it as fresh, from one second more both take
\* it as stale
ChecksAgree(store, t) ==
    \A u \in Users :
        LET has == _has_fresh_photo(store, t, u)
            val == _pop_last_photo(store, t, u).val
        IN  /\ has <=> val # None
            /\ u \in DOMAIN store =>
                  IF t - store[u][2] <= TTL_SECONDS
                  THEN has /\ val = store[u][1]
                  ELSE ~has /\ val = None

\* C20: at one clock value _has_fresh_photo(u) is true exactly when
\* _pop_last_photo(u) would return an image; an entry aged TTL_SECONDS is
\* fresh for both, one aged TTL_SECONDS + 1 stale for both; so on_text
\* answers "wait expired" only when the clock passes the end of the
\* validity window between its check and its pop.
C20_CheckAndPopAgree ==
    [][ /\ ChecksAgree(LAST_PHOTO, now)'
        /\ \A t \in DOMAIN tasks' :
              (t \notin DOMAIN tasks /\ tasks'[t].replies = <<ReplyText(MSG_EXPIRED)>>) =>
                  LET u == tasks'[t].user_id IN
                  /\ u \in DOMAIN LAST_PHOTO
                  /\ now - LAST_PHOTO[u][2] <= TTL_SECONDS
                  /\ now' - LAST_PHOTO[u][2] > TTL_SECONDS ]_vars

\* C20 witness: a text found its image fresh at age TTL_SECONDS and stale
\* one second later, at the pop, and was answered "wait expired"
C20_Witness ==
    \E t \in DOMAIN tasks :
        LET u == tasks[t].user_id IN
        /\ tasks[t].replies = <<ReplyText(MSG_EXPIRED)>>
        /\ hist[u] # None
        /\ hist[u].texts = <<[task |-> t, at |-> hist[u].ts + TTL_SECONDS]>>
        /\ hist[u].popped = <<[val |-> None, at |-> hist[u].ts + TTL_SECONDS + 1]>>

====
